---------------------------- MODULE Spec2Model ----------------------------
(***************************************************************************)
(* District / state choropleth map generator: the metric-to-visual         *)
(* encoding pipeline of generate_folium_map in its two application         *)
(* variants, src/map_app.py and src/map_app_v1.py.                         *)
(*                                                                         *)
(* Metric values are integers (counts).  For SM_AEPS_MARKET_SHARE the unit *)
(* of both the cut points and the values is one hundredth, so the source's *)
(* cut points 0.1, 0.14, 0.17, 0.19, 0.21 read 10, 14, 17, 19, 21.         *)
(* A nullable number is <<>> (NaN) or <<n>>.  A missing bucket is "NaN".   *)
(* Quantile edges are held exactly, as numerators over the quantile count  *)
(* q: the edge is bin_edges[k] / q.                                        *)
(***************************************************************************)
EXTENDS Integers, Sequences, FiniteSets, TLC

VARIABLES
    variant,      \* which application runs: "map_app" or "map_app_v1"
    table_entry,  \* SpecCut: the declared entry of the bin and colour tables
    geography,    \* generate_folium_map's argument (map_app.py reassigns it)
    boundary,     \* generate_folium_map's argument
    metric,       \* generate_folium_map's argument
    state,        \* generate_folium_map's argument
    merged_gdf,   \* the row table: a sequence of rows (records)
    columns,      \* merged_gdf.columns
    bins,         \* the sorted cut points of the predefined scheme applied
    color_map,    \* label -> colour
    q_idx,        \* get_valid_bins: position in bin_options
    attempts,     \* get_valid_bins: quantile counts tried so far, with outcome
    bin_edges,    \* get_valid_bins: edges of the last attempt whose first qcut passed
    labels,       \* the labels of the scheme applied (predefined or synthesized)
    features,     \* what folium.GeoJson receives: one property record per row
    styles,       \* what style_function returns for each feature
    earlier,      \* SpecTwice: table and colour map of the classification passes before
    session,      \* st.session_state: the entries the script has written
    page,         \* what the current script run has put on the page
    clicks,       \* Generate clicks so far
    thread,       \* SpecThreads: which of the two script threads is running
    other,        \* SpecThreads: the locals of the thread that is not running
    today,        \* SpecMonths: the year and month date.today() returns
    months,       \* SpecMonths: the month list being built (month_labels in map_app_v1.py)
    year,         \* SpecMonths: the loop's year (y in map_app_v1.py)
    month,        \* SpecMonths: the loop's month (m in map_app_v1.py)
    file_name,    \* the suggested artifact name
    exc,          \* the exception that ended the request, or "none"
    pc            \* position in generate_folium_map

vars == << variant, table_entry, geography, boundary, metric, state, merged_gdf, columns,
           bins, color_map, q_idx, attempts, bin_edges, labels, features, styles, earlier, session, page, clicks,
           thread, other, today, months, year, month, file_name, exc, pc >>

-----------------------------------------------------------------------------
(* Bounds of the model                                                     *)

\* regions in the boundary file of a request (Spec)
NumRegions == 2

\* rows of the longest table handed to dynamic binning (SpecBin)
MaxBinRows == 11

\* metric values a warehouse row may carry (Spec)
MetricValues == {-1, 0, 1, 50, 75, 5000}

\* SpecBin: value of the first row, and how much a row exceeds the one before
BinBases == {-2, 0}
BinSteps == {0, 1}

-----------------------------------------------------------------------------
(* Values                                                                  *)

inf == 1000000000

NaN == "NaN"

NoValue == << >>

IsNa(v) == v = NoValue

Variants == {"map_app", "map_app_v1"}

Geographies == {"State", "National"}

Boundaries == {"district_level", "state_level"}

States == {"BIHAR", "PUNJAB"}

Metrics == {"TRANSACTING_SMAs", "SM_AEPS_MARKET_SHARE", "GROSS_ADDS",
            "SP_USAGE_CHURN_non_CMS", "BL_DL_COUNT", "ACTIVE_PARTNERS",
            "CHANGE_IN_AEPS_MARKET_SHARE"}

-----------------------------------------------------------------------------
(* Scheme tables of src/map_app.py (module level)                          *)

AepsShareBins ==
    [bins   |-> << 0, 10, 14, 17, 19, 21, inf >>,
     labels |-> << "0-0.1", "0.1-0.14", "0.14-0.17", "0.17-0.19", "0.19-0.21", ">0.21" >>]

ChangeLabels ==
    << "<-3", "-3 to -2", "-2 to -1", "-1 to 0", "0 to 1",
       "1 to 2", "2 to 3", "3 to 4", "4 to 5", ">5" >>

StateTransactingBins ==
    [bins   |-> << 0, 2000, 5000, 10000, 20000, 30000, 40000, 50000, inf >>,
     labels |-> << "0-2000", "2000-5000", "5000-10000", "10000-20000",
                   "20000-30000", "30000-40000", "40000-50000", ">50000" >>]

StateChurnBins ==
    [bins   |-> << 0, 50, 100, 200, 300, inf >>,
     labels |-> << "0-50", "50-100", "100-200", "200-300", ">300" >>]

predefined_metric_bins_district_level ==
    [TRANSACTING_SMAs |->
        [bins   |-> << 0, 100, 500, 800, 1200, 2000, inf >>,
         labels |-> << "0-50", "50-100", "100-250", "250-500", "500-1000", ">1000" >>],
     SM_AEPS_MARKET_SHARE |-> AepsShareBins,
     CHANGE_IN_AEPS_MARKET_SHARE |->
        [bins   |-> << -inf, -3, -2, -1, 0, 1, 2, 3, 4, 5, inf >>,
         labels |-> ChangeLabels],
     BL_DL_COUNT |->
        [bins   |-> << -inf, 0, 1, 2, 3, 4, inf >>,
         labels |-> << "0", "1", "2", "3", "4", ">4" >>],
     ACTIVE_PARTNERS |->
        [bins   |-> << -inf, 0, 1, 2, 3, 4, inf >>,
         labels |-> << "0", "1", "2", "3", "4", ">4" >>]]

predefined_metric_bins_state_level ==
    [TRANSACTING_SMAs |-> StateTransactingBins,
     SM_AEPS_MARKET_SHARE |-> AepsShareBins,
     SP_USAGE_CHURN_non_CMS |-> StateChurnBins,
     CHANGE_IN_AEPS_MARKET_SHARE |->
        [bins   |-> << -inf, -3, -2, -1, 0, 1, 2, 3, 4, 5, inf >>,
         labels |-> ChangeLabels]]

AepsShareColors ==
    ("0-0.1" :> "darkred") @@ ("0.1-0.14" :> "red") @@ ("0.14-0.17" :> "orange")
    @@ ("0.17-0.19" :> "yellow") @@ ("0.19-0.21" :> "lightgreen") @@ (">0.21" :> "green")

ChangeColors ==
    ("<-3" :> "darkred") @@ ("-3 to -2" :> "darkred") @@ ("-2 to -1" :> "red")
    @@ ("-1 to 0" :> "orange") @@ ("0 to 1" :> "yellow") @@ ("1 to 2" :> "lightgreen")
    @@ ("2 to 3" :> "green") @@ ("3 to 4" :> "green") @@ ("4 to 5" :> "darkgreen")
    @@ (">5" :> "darkgreen")

DistrictChurnColors ==
    ("0-1" :> "green") @@ ("1-2" :> "lightgreen") @@ ("2-3" :> "yellow")
    @@ ("3-4" :> "orange") @@ (">4" :> "red")

PartnersColors ==
    ("0" :> "grey") @@ ("1" :> "red") @@ ("2" :> "orange") @@ ("3" :> "yellow")
    @@ ("4" :> "lightgreen") @@ (">4" :> "green")

StateTransactingColors ==
    ("0-2000" :> "darkred") @@ ("2000-5000" :> "red") @@ ("5000-10000" :> "orangered")
    @@ ("10000-20000" :> "orange") @@ ("20000-30000" :> "yellow")
    @@ ("30000-40000" :> "lightgreen") @@ ("40000-50000" :> "green") @@ (">50000" :> "green")

\* The state-level colours of SP_USAGE_CHURN_non_CMS as they would be
\* without the entry of the last label
StateChurnColorsShort ==
    ("0-50" :> "green") @@ ("50-100" :> "lightgreen") @@ ("100-200" :> "yellow")
    @@ ("200-300" :> "orange")

StateChurnColors ==
    ("0-50" :> "green") @@ ("50-100" :> "lightgreen") @@ ("100-200" :> "yellow")
    @@ ("200-300" :> "orange") @@ (">300" :> "red")

predefined_metric_colors_district_level ==
    [TRANSACTING_SMAs |->
        ("0-50" :> "darkred") @@ ("50-100" :> "red") @@ ("100-250" :> "orange")
        @@ ("250-500" :> "gold") @@ ("500-1000" :> "yellowgreen") @@ (">1000" :> "green"),
     SM_AEPS_MARKET_SHARE |-> AepsShareColors,
     SP_USAGE_CHURN_non_CMS |-> DistrictChurnColors,
     CHANGE_IN_AEPS_MARKET_SHARE |-> ChangeColors,
     BL_DL_COUNT |->
        ("0" :> "grey") @@ ("1" :> "lightyellow") @@ ("2" :> "yellow") @@ ("3" :> "khaki")
        @@ ("4" :> "yellowgreen") @@ (">4" :> "darkgreen"),
     ACTIVE_PARTNERS |-> PartnersColors]

predefined_metric_colors_state_level ==
    [TRANSACTING_SMAs |-> StateTransactingColors,
     SM_AEPS_MARKET_SHARE |-> AepsShareColors,
     SP_USAGE_CHURN_non_CMS |-> StateChurnColors,
     CHANGE_IN_AEPS_MARKET_SHARE |-> ChangeColors]

-----------------------------------------------------------------------------
(* Scheme tables of src/map_app_v1.py (local to generate_folium_map)       *)

V1ChangeBins ==
    [bins   |-> << -inf, -3, -2, -1, 0, 1, 2, 3, 5, inf >>,
     labels |-> ChangeLabels]

V1CountBins ==
    [bins   |-> << 0, 1, 2, 3, 4, inf >>,
     labels |-> << "0", "1", "2", "3", "4", ">4" >>]

V1CountColors ==
    ("0" :> "grey") @@ ("1" :> "lightyellow") @@ ("2" :> "yellow") @@ ("3" :> "yellowgreen")
    @@ ("4" :> "green") @@ (">4" :> "darkgreen")

v1_predefined_metric_bins_district_level ==
    [TRANSACTING_SMAs |->
        [bins   |-> << 0, 50, 100, 250, 500, 1000, inf >>,
         labels |-> << "0-50", "50-100", "100-250", "250-500", "500-1000", ">1000" >>],
     SM_AEPS_MARKET_SHARE |-> AepsShareBins,
     SP_USAGE_CHURN_non_CMS |->
        [bins   |-> << 0, 1, 2, 3, 4, inf >>,
         labels |-> << "0-1", "1-2", "2-3", "3-4", ">4" >>],
     CHANGE_IN_AEPS_MARKET_SHARE |-> V1ChangeBins,
     BL_DL_COUNT |-> V1CountBins,
     ACTIVE_PARTNERS |-> V1CountBins]

v1_predefined_metric_bins_state_level ==
    [TRANSACTING_SMAs |-> StateTransactingBins,
     SM_AEPS_MARKET_SHARE |-> AepsShareBins,
     SP_USAGE_CHURN_non_CMS |-> StateChurnBins,
     CHANGE_IN_AEPS_MARKET_SHARE |-> V1ChangeBins,
     BL_DL_COUNT |-> V1CountBins,
     ACTIVE_PARTNERS |-> V1CountBins]

v1_predefined_metric_colors_district_level ==
    [TRANSACTING_SMAs |->
        ("0-50" :> "darkred") @@ ("50-100" :> "red") @@ ("100-250" :> "orange")
        @@ ("250-500" :> "#c7e77f") @@ ("500-1000" :> "yellowgreen") @@ (">1000" :> "green"),
     SM_AEPS_MARKET_SHARE |-> AepsShareColors,
     SP_USAGE_CHURN_non_CMS |-> DistrictChurnColors,
     CHANGE_IN_AEPS_MARKET_SHARE |-> ChangeColors,
     BL_DL_COUNT |-> V1CountColors,
     ACTIVE_PARTNERS |-> PartnersColors]

v1_predefined_metric_colors_state_level ==
    [TRANSACTING_SMAs |-> StateTransactingColors,
     SM_AEPS_MARKET_SHARE |-> AepsShareColors,
     SP_USAGE_CHURN_non_CMS |-> StateChurnColors,
     CHANGE_IN_AEPS_MARKET_SHARE |-> ChangeColors,
     BL_DL_COUNT |-> V1CountColors,
     ACTIVE_PARTNERS |-> PartnersColors]

\* The table selection as it would be with the two branches exchanged
metric_list_crossed(var, b) ==
    IF var = "map_app"
    THEN IF b = "district_level" THEN predefined_metric_bins_state_level
         ELSE predefined_metric_bins_district_level
    ELSE IF b = "district_level" THEN v1_predefined_metric_bins_state_level
         ELSE v1_predefined_metric_bins_district_level

\* lines 812-817 of map_app.py, 727-732 of map_app_v1.py
metric_list_to_be_used(var, b) ==
    IF var = "map_app"
    THEN IF b = "district_level" THEN predefined_metric_bins_district_level
                                 ELSE predefined_metric_bins_state_level
    ELSE IF b = "district_level" THEN v1_predefined_metric_bins_district_level
                                 ELSE v1_predefined_metric_bins_state_level

color_map_to_be_used(var, b) ==
    IF var = "map_app"
    THEN IF b = "district_level" THEN predefined_metric_colors_district_level
                                 ELSE predefined_metric_colors_state_level
    ELSE IF b = "district_level" THEN v1_predefined_metric_colors_district_level
                                 ELSE v1_predefined_metric_colors_state_level


-----------------------------------------------------------------------------
(* Python and pandas helpers                                               *)

RECURSIVE InsertSorted(_, _)
InsertSorted(s, x) ==
    IF s = << >> THEN << x >>
    ELSE IF x < Head(s) THEN << x >> \o s
    ELSE << Head(s) >> \o InsertSorted(Tail(s), x)

\* The cut points as they would reach pd.cut without the call of sorted()
declared_order(s) == s

\* Python's sorted() on a list of numbers
RECURSIVE sorted(_)
sorted(s) == IF s = << >> THEN << >> ELSE InsertSorted(sorted(Tail(s)), Head(s))

\* pandas.unique: first occurrences, in order
RECURSIVE unique(_)
unique(s) ==
    IF s = << >> THEN << >>
    ELSE LET r == unique(SubSeq(s, 1, Len(s) - 1))
             x == s[Len(s)]
         IN IF \E i \in 1..Len(r) : r[i] = x THEN r ELSE Append(r, x)

is_monotonic_increasing(s) == \A i \in 1..(Len(s) - 1) : s[i] <= s[i + 1]

is_unique(s) == \A i, j \in 1..Len(s) : i # j => s[i] # s[j]

\* searchsorted(side="left"): how many edges lie strictly below v.
\* Edges and v are numerators over the same denominator.
searchsorted_left(edges, v) == Cardinality({i \in 1..Len(edges) : edges[i] < v})

\* pandas _bins_to_cuts, the bucket of one nullable value: right-closed bins,
\* with include_lowest the lowest edge itself falls into the first bin.
bin_of(edges, v, scale, include_lowest) ==
    IF IsNa(v) THEN 0
    ELSE LET ids == searchsorted_left(edges, scale * v[1])
         IN IF include_lowest /\ scale * v[1] = edges[1] THEN 1
            ELSE IF ids = Len(edges) THEN 0 ELSE ids

\* pd.cut as it would classify with right=False: intervals closed on the
\* left and open on the right
pd_cut_left_closed(x, cutpoints, lbls) ==
    IF ~is_monotonic_increasing(cutpoints)
    THEN [raised |-> "ValueError", values |-> << >>]
    ELSE LET ub == unique(cutpoints)
             b  == IF Len(ub) < Len(cutpoints) /\ Len(cutpoints) # 2 THEN ub ELSE cutpoints
         IN IF Len(lbls) # Len(b) - 1
            THEN [raised |-> "ValueError", values |-> << >>]
            ELSE [raised |-> "none",
                  values |-> [k \in 1..Len(x) |->
                                IF IsNa(x[k]) THEN NaN
                                ELSE LET id == Cardinality({i \in 1..Len(b) : b[i] <= x[k][1]})
                                     IN IF id = 0 \/ id = Len(b) THEN NaN ELSE lbls[id]]]

\* pd.cut(x, bins=bins, labels=lbls, duplicates="drop", ordered=False)
pd_cut(x, cutpoints, lbls) ==
    IF ~is_monotonic_increasing(cutpoints)
    THEN [raised |-> "ValueError", values |-> << >>]
    ELSE LET ub == unique(cutpoints)
             b  == IF Len(ub) < Len(cutpoints) /\ Len(cutpoints) # 2 THEN ub ELSE cutpoints
         IN IF Len(lbls) # Len(b) - 1
            THEN [raised |-> "ValueError", values |-> << >>]
            ELSE [raised |-> "none",
                  values |-> [k \in 1..Len(x) |->
                                LET id == bin_of(b, x[k], 1, FALSE)
                                IN IF id = 0 THEN NaN ELSE lbls[id]]]

\* The non-null values of a column, ascending (Series.dropna, then the sort
\* inside Series.quantile)
dropna_sorted(x) ==
    LET nn == SelectSeq(x, LAMBDA v : ~IsNa(v))
    IN sorted([k \in 1..Len(nn) |-> nn[k][1]])

\* Series.quantile as it would be with interpolation="lower": the edge is the
\* value at the lower position, without interpolation
quantile_lower(xs, q) ==
    [k \in 1..(q + 1) |-> q * xs[((Len(xs) - 1) * (k - 1)) \div q + 1]]

\* Series.quantile(np.linspace(0, 1, q + 1)) with linear interpolation, on the
\* ascending values xs (not empty): edge k-1 is at position (n-1)(k-1)/q.
\* Each edge is returned times q.
quantile(xs, q) ==
    [k \in 1..(q + 1) |->
        LET h  == (Len(xs) - 1) * (k - 1)
            lo == h \div q
            r  == h % q
        IN IF r = 0 THEN q * xs[lo + 1]
           ELSE q * xs[lo + 1] + r * (xs[lo + 2] - xs[lo + 1])]

\* math.floor of the float e / q: the next integer below
int_floor(e, q) == e \div q

\* Python int() of the float e / q: truncation toward zero
int(e, q) == IF e >= 0 THEN e \div q ELSE -((-e) \div q)

\* f"{a}-{b}"
fmt_label(a, b) == ToString(a) \o "-" \o ToString(b)

\* lines 351-354 of map_app.py, 749 of map_app_v1.py
make_labels(edges, q) ==
    [i \in 1..(Len(edges) - 1) |-> fmt_label(int(edges[i], q), int(edges[i + 1], q))]

\* sns.color_palette("RdYlGn_r", n).as_hex(): the palette from the green end
color_palette_reversed(n) == [i \in 1..n |-> << "RdYlGn", n, n + 1 - i >>]

\* sns.color_palette("RdYlGn", n).as_hex(): step i of n, from the red end
color_palette(n) == [i \in 1..n |-> << "RdYlGn", n, i >>]

\* {label: dynamic_colors[i] for i, label in enumerate(labels)}: a later
\* entry replaces an earlier one with the same key
dict_of(lbls, colors) ==
    [l \in {lbls[i] : i \in 1..Len(lbls)} |->
        colors[CHOOSE i \in 1..Len(lbls) :
                  lbls[i] = l /\ \A j \in (i + 1)..Len(lbls) : lbls[j] # l]]

\* The loop body as it would be if pd.qcut accepted equal labels: only equal
\* edges reject a quantile count
attempt_edges_only(x, q) ==
    LET xs == dropna_sorted(x)
    IN IF Len(xs) = 0
       THEN [outcome |-> "edges_not_unique", edges |-> << >>, labels |-> << >>,
             values |-> << >>]
       ELSE LET edges == quantile(xs, q)
                lbls  == make_labels(edges, q)
            IN IF ~is_unique(edges)
               THEN [outcome |-> "edges_not_unique", edges |-> << >>,
                     labels |-> << >>, values |-> << >>]
               ELSE [outcome |-> "ok", edges |-> edges, labels |-> lbls,
                     values |-> [k \in 1..Len(x) |->
                                   LET id == bin_of(edges, x[k], q, TRUE)
                                   IN IF id = 0 THEN NaN ELSE lbls[id]]]

\* One pass of the loop body of get_valid_bins for quantile count q, up to the
\* return or the except: the two pd.qcut calls (duplicates="raise") and the
\* labels between them.  With no non-null value every edge is NaN and the
\* edges are not unique.
attempt(x, q) ==
    LET xs == dropna_sorted(x)
    IN IF Len(xs) = 0
       THEN [outcome |-> "edges_not_unique", edges |-> << >>, labels |-> << >>,
             values |-> << >>]
       ELSE LET edges == quantile(xs, q)
                lbls  == make_labels(edges, q)
            IN IF ~is_unique(edges)
               THEN [outcome |-> "edges_not_unique", edges |-> << >>,
                     labels |-> << >>, values |-> << >>]
               ELSE IF ~is_unique(lbls)
               THEN [outcome |-> "labels_not_unique", edges |-> edges,
                     labels |-> lbls, values |-> << >>]
               ELSE [outcome |-> "ok", edges |-> edges, labels |-> lbls,
                     values |-> [k \in 1..Len(x) |->
                                   LET id == bin_of(edges, x[k], q, TRUE)
                                   IN IF id = 0 THEN NaN ELSE lbls[id]]]

bin_options == << 10, 5, 4, 3, 2 >>

-----------------------------------------------------------------------------
(* The row table                                                           *)

month_year == "2025-03-01"

\* The boundary files: region k of India_District_Boundaries.shp and of
\* India_State_Boundaries3.shp
DistrictName(k) == "DISTRICT_" \o ToString(k)

StateName(k) == IF k = 1 THEN "BIHAR" ELSE IF k = 2 THEN "PUNJAB" ELSE "STATE_" \o ToString(k)

\* The state the warehouse reports for district k
StateOfDistrict(k) == IF k % 2 = 1 THEN "BIHAR" ELSE "PUNJAB"

\* gdf.merge(df, how="left"): one row per region of the boundary file; v is
\* the warehouse's metric value for the region, NoValue when the warehouse has
\* no row for it, and then the columns that come from the warehouse are NaN.
merged_row(b, k, v) ==
    IF b = "state_level"
    THEN [STATE_NAME |-> StateName(k), value |-> v]
    ELSE [District |-> DistrictName(k),
          DISTRICT_NAME |-> IF IsNa(v) THEN NaN ELSE DistrictName(k),
          STATE_x |-> IF IsNa(v) THEN NaN ELSE StateOfDistrict(k),
          value |-> v]

merged_columns(b) ==
    IF b = "state_level" THEN {"STATE_NAME", "value"}
    ELSE {"District", "DISTRICT_NAME", "STATE_x", "value"}

\* df[name] = vals
set_column(df, name, vals) ==
    [k \in 1..Len(df) |->
        [f \in (DOMAIN df[k]) \cup {name} |-> IF f = name THEN vals[k] ELSE df[k][f]]]

\* df[column]
column_of(df) == [k \in 1..Len(df) |-> df[k].value]

\* df["Buckets"].map(color_map)
map_colors(vals, cmap) ==
    [k \in 1..Len(vals) |-> IF vals[k] \in DOMAIN cmap THEN cmap[vals[k]] ELSE NaN]

EmptyMap == << >>

\* st.session_state of a new session: no entry
EmptySession == << >>

\* A script run that has not rendered a download control, an error or a map
EmptyPage == [download |-> << >>, error |-> "none", map |-> << >>]

\* No declared entry: the request reads the tables of the source
NoEntry == [bins |-> << >>, labels |-> << >>, colors |-> EmptyMap]

-----------------------------------------------------------------------------
(* The month list: build_month_list (map_app.py) and the sidebar loop of   *)
(* map_app_v1.py.  A date is the triple of the fields that "%Y-%m-%d"      *)
(* prints; a label is the pair of the fields that "%B %Y" prints.          *)

start_year == 2024
start_month == 4

\* the last year the clock of the model shows
LastYear == 2026

\* what date.today() may return, as year and month
Clock == [year : start_year..LastYear, month : 1..12]

\* no second thread
NoThread == << >>

\* today before the month list is built
NoDate == << >>

\* the end of the list as it would be if the current month were the last
end_month_current(current_month) == current_month

end_month(current_month) == IF current_month > 1 THEN current_month - 1 ELSE 12

\* the end of the list as it would be without the step back in January
end_year_same(current_year, current_month) == current_year

end_year(current_year, current_month) ==
    IF current_month = 1 THEN current_year - 1 ELSE current_year

MonthNames ==
    << "January", "February", "March", "April", "May", "June", "July",
       "August", "September", "October", "November", "December" >>

\* date(y, m, 1).strftime("%Y-%m-%d")
strftime_Ymd(y, m) == << y, m, 1 >>

\* datetime(y, m, 1).strftime("%B %Y")
strftime_BY(y, m) == << MonthNames[m], y >>

\* datetime.strptime(label, "%B %Y").strftime("%Y-%m-01")
month_label_to_value(label) ==
    << label[2], CHOOSE m \in 1..12 : MonthNames[m] = label[1], 1 >>

-----------------------------------------------------------------------------
(* generate_folium_map                                                     *)

Init ==
    /\ variant \in Variants
    /\ table_entry = NoEntry
    /\ geography = "National"
    /\ boundary = "district_level"
    /\ metric = "TRANSACTING_SMAs"
    /\ state = "N/A"
    /\ merged_gdf = << >>
    /\ columns = {}
    /\ bins = << >>
    /\ color_map = EmptyMap
    /\ q_idx = 1
    /\ attempts = << >>
    /\ bin_edges = << >>
    /\ labels = << >>
    /\ features = << >>
    /\ styles = << >>
    /\ earlier = << >>
    /\ thread = 1
    /\ other = NoThread
    /\ today = NoDate
    /\ months = << >>
    /\ year = start_year
    /\ month = start_month
    /\ session = EmptySession
    /\ page = EmptyPage
    /\ clicks = 0
    /\ file_name = ""
    /\ exc = "none"
    /\ pc = "idle"

\* The head of generate_folium_map as it would be without the check of the
\* boundary
call_unchecked(boundaries) ==
    /\ pc = "idle"
    /\ \E g \in Geographies, b \in boundaries, m \in Metrics,
          st \in States \cup {"N/A"} :
        /\ (g = "State") <=> (st \in States)
        /\ geography' = IF variant = "map_app" /\ b = "state_level" /\ g = "State"
                        THEN "National" ELSE g
        /\ boundary' = b
        /\ metric' = m
        /\ state' = st
        /\ pc' = "query" /\ exc' = "none"
    /\ UNCHANGED << variant, table_entry, thread, other, today, months, year, month, styles, earlier, merged_gdf, columns, bins,
                    color_map, q_idx, attempts, bin_edges, labels, features, file_name >>

\* The call and the function's head as they would be if map_app.py kept
\* the geography of a state-level request
call_without_reset(boundaries) ==
    /\ pc = "idle"
    /\ \E g \in Geographies, b \in boundaries, m \in Metrics,
          st \in States \cup {"N/A"} :
        /\ (g = "State") <=> (st \in States)
        /\ geography' = g
        /\ boundary' = b
        /\ metric' = m
        /\ state' = st
        /\ IF b \in Boundaries
           THEN pc' = "query" /\ exc' = "none"
           ELSE pc' = "raised" /\ exc' = "ValueError"
    /\ UNCHANGED << variant, table_entry, thread, other, today, months, year, month, styles, earlier, merged_gdf, columns, bins,
                    color_map, q_idx, attempts, bin_edges, labels, features, file_name >>

\* The call and the function's head, with the boundary one of boundaries:
\* map_app.py resets geography for state-level boundaries; both variants
\* reject an unknown boundary.
call_generate(boundaries) ==
    /\ pc = "idle"
    /\ \E g \in Geographies, b \in boundaries, m \in Metrics,
          st \in States \cup {"N/A"} :
        /\ (g = "State") <=> (st \in States)
        /\ geography' = IF variant = "map_app" /\ b = "state_level" /\ g = "State"
                        THEN "National" ELSE g
        /\ boundary' = b
        /\ metric' = m
        /\ state' = st
        /\ IF b \in Boundaries
           THEN pc' = "query" /\ exc' = "none"
           ELSE pc' = "raised" /\ exc' = "ValueError"
    /\ UNCHANGED << variant, table_entry, thread, other, today, months, year, month, styles, earlier, merged_gdf, columns, bins,
                    color_map, q_idx, attempts, bin_edges, labels, features, file_name >>

\* generate_folium_map called with any boundary string
Generate ==
    /\ call_generate(Boundaries \cup {"taluk_level"})
    /\ UNCHANGED << session, page, clicks >>

\* The warehouse query and the left merge onto the boundary file, the
\* warehouse's metric values among values
merge_from(values) ==
    /\ pc = "query"
    /\ \E v \in [1..NumRegions -> {NoValue} \cup {<< n >> : n \in values}] :
        merged_gdf' = [k \in 1..NumRegions |-> merged_row(boundary, k, v[k])]
    /\ columns' = merged_columns(boundary)
    /\ pc' = "filter"
    /\ UNCHANGED << variant, table_entry, thread, other, today, months, year, month, session, page, clicks, earlier, styles,
                    geography, boundary, metric, state, bins, color_map, q_idx,
                    attempts, bin_edges, labels, features, file_name, exc >>

Merge == merge_from(MetricValues)

\* The state cut as it would be if it came after the classification: the
\* table reaches the classification whole
CutByStateSkipped ==
    /\ pc = "filter"
    /\ IF geography = "State" /\ "STATE_x" \notin columns
       THEN /\ pc' = "raised"
            /\ exc' = "KeyError"
       ELSE /\ pc' = "classify"
            /\ UNCHANGED exc
    /\ UNCHANGED << variant, table_entry, thread, other, today, months, year, month, session, page, clicks, earlier, styles, geography, boundary, metric, state, merged_gdf, columns, bins,
                    color_map, q_idx, attempts, bin_edges, labels, features, file_name >>

\* if geography == "State": merged_gdf = merged_gdf[merged_gdf["STATE_x"] == state]
CutByState ==
    /\ pc = "filter"
    /\ IF geography # "State"
       THEN /\ pc' = "classify"
            /\ UNCHANGED << merged_gdf, exc >>
       ELSE IF "STATE_x" \notin columns
       THEN /\ pc' = "raised"
            /\ exc' = "KeyError"
            /\ UNCHANGED merged_gdf
       ELSE /\ merged_gdf' = SelectSeq(merged_gdf, LAMBDA r : r.STATE_x = state)
            /\ pc' = "classify"
            /\ UNCHANGED exc
    /\ UNCHANGED << variant, table_entry, thread, other, today, months, year, month, session, page, clicks, earlier, styles, geography, boundary, metric, state, columns, bins,
                    color_map, q_idx, attempts, bin_edges, labels, features, file_name >>

\* map_app.py: color_map_to_be_used.get(metric, {}); map_app_v1.py:
\* color_map_to_be_used[metric]
lookup_colors(var, b, m) ==
    IF m \in DOMAIN color_map_to_be_used(var, b) THEN color_map_to_be_used(var, b)[m]
    ELSE EmptyMap

lookup_raises(var, b, m) ==
    var = "map_app_v1" /\ m \notin DOMAIN color_map_to_be_used(var, b)

\* The predefined branch: bins = sorted(bins); merged_gdf["Buckets"] =
\* pd.cut(...); then the colour lookup.  declared and lbls are the entry of the
\* bin table, cmap the entry of the colour table, raises says the colour
\* lookup fails.
apply_scheme(declared, lbls, raises, cmap) ==
    LET cut == pd_cut(column_of(merged_gdf), sorted(declared), lbls)
    IN /\ bins' = sorted(declared)
       /\ labels' = lbls
       /\ IF cut.raised # "none"
          THEN /\ pc' = "raised"
               /\ exc' = cut.raised
               /\ UNCHANGED << merged_gdf, columns, color_map >>
          ELSE IF raises
          THEN /\ pc' = "raised"
               /\ exc' = "KeyError"
               /\ merged_gdf' = set_column(merged_gdf, "Buckets", cut.values)
               /\ columns' = columns \cup {"Buckets"}
               /\ UNCHANGED color_map
          ELSE /\ pc' = "render"
               /\ merged_gdf' = set_column(merged_gdf, "Buckets", cut.values)
               /\ columns' = columns \cup {"Buckets"}
               /\ color_map' = cmap
               /\ UNCHANGED exc

\* Classify as it would be if a call of get_valid_bins consumed the quantile
\* counts it tried, so that the next call starts behind them
ClassifyConsumingOptions ==
    /\ pc = "classify"
    /\ IF metric \in DOMAIN metric_list_to_be_used(variant, boundary)
       THEN LET scheme == metric_list_to_be_used(variant, boundary)[metric]
            IN apply_scheme(scheme.bins, scheme.labels,
                            lookup_raises(variant, boundary, metric),
                            lookup_colors(variant, boundary, metric))
       ELSE /\ pc' = "binning"
            /\ UNCHANGED << merged_gdf, columns, bins, color_map, labels, exc >>
    /\ q_idx' = IF attempts = << >> THEN 1 ELSE Len(attempts) + 1
    /\ attempts' = << >>
    /\ UNCHANGED << variant, table_entry, thread, other, today, months, year, month, session, page, clicks, earlier, styles, geography, boundary, metric, state, bin_edges,
                    features, file_name >>

\* if metric in metric_list_to_be_used: the predefined scheme, applied with
\* pd.cut; else: the call of get_valid_bins
Classify ==
    /\ pc = "classify"
    /\ IF metric \in DOMAIN metric_list_to_be_used(variant, boundary)
       THEN LET scheme == metric_list_to_be_used(variant, boundary)[metric]
            IN apply_scheme(scheme.bins, scheme.labels,
                            lookup_raises(variant, boundary, metric),
                            lookup_colors(variant, boundary, metric))
       ELSE /\ pc' = "binning"
            /\ UNCHANGED << merged_gdf, columns, bins, color_map, labels, exc >>
    /\ q_idx' = 1
    /\ attempts' = << >>
    /\ UNCHANGED << variant, table_entry, thread, other, today, months, year, month, session, page, clicks, earlier, styles, geography, boundary, metric, state, bin_edges,
                    features, file_name >>

\* get_valid_bins, one pass of "for q in bin_options": on success the bucket
\* column (and in map_app_v1.py the color column) is written and the function
\* returns; a ValueError of either qcut moves on to the next quantile count.
TryQuantile ==
    /\ pc = "binning"
    /\ q_idx <= Len(bin_options)
    /\ LET q == bin_options[q_idx]
           a == attempt(column_of(merged_gdf), q)
           cmap == dict_of(a.labels, color_palette(Len(a.labels)))
           with_buckets == set_column(merged_gdf, "Buckets", a.values)
       IN /\ attempts' = Append(attempts, [q |-> q, outcome |-> a.outcome])
          /\ IF a.outcome = "edges_not_unique"
             THEN UNCHANGED << bin_edges, labels >>
             ELSE bin_edges' = a.edges /\ labels' = a.labels
          /\ IF a.outcome = "ok"
             THEN /\ merged_gdf' =
                        IF variant = "map_app_v1"
                        THEN set_column(with_buckets, "color", map_colors(a.values, cmap))
                        ELSE with_buckets
                  /\ columns' = columns \cup
                        (IF variant = "map_app_v1" THEN {"Buckets", "color"} ELSE {"Buckets"})
                  /\ color_map' = cmap
                  /\ pc' = "render"
                  /\ UNCHANGED q_idx
             ELSE /\ q_idx' = q_idx + 1
                  /\ UNCHANGED << merged_gdf, columns, color_map, pc >>
    /\ UNCHANGED << variant, table_entry, thread, other, today, months, year, month, session, page, clicks, earlier, styles, geography, boundary, metric, state, bins, features,
                    file_name, exc >>

\* The end of the loop as it would be if the last ValueError escaped
AllAttemptsFailedRaises ==
    /\ pc = "binning"
    /\ q_idx > Len(bin_options)
    /\ exc' = "ValueError"
    /\ pc' = "raised"
    /\ UNCHANGED << variant, table_entry, thread, other, today, months, year, month, session, page, clicks, earlier, styles, geography, boundary, metric, state, merged_gdf, columns,
                    bins, color_map, q_idx, attempts, bin_edges, labels, features,
                    file_name >>

\* get_valid_bins after the loop: return df, {}
AllAttemptsFailed ==
    /\ pc = "binning"
    /\ q_idx > Len(bin_options)
    /\ color_map' = EmptyMap
    /\ pc' = "render"
    /\ UNCHANGED << variant, table_entry, thread, other, today, months, year, month, session, page, clicks, earlier, styles, geography, boundary, metric, state, merged_gdf, columns,
                    bins, q_idx, attempts, bin_edges, labels, features, file_name, exc >>

\* The file name as it would be without the State branch
make_file_name_national(g, st, b, m, my) ==
    "MAP_National_" \o b \o "_" \o m \o "_" \o my \o ".html"

make_file_name(g, st, b, m, my) ==
    IF g = "State"
    THEN "MAP_State_" \o st \o "_" \o b \o "_" \o m \o "_" \o my \o ".html"
    ELSE "MAP_National_" \o b \o "_" \o m \o "_" \o my \o ".html"

\* style_function with a fallback that is not gray
style_function_white(properties, cmap) ==
    LET bucket == IF "Buckets" \in DOMAIN properties THEN properties.Buckets ELSE "gray"
    IN [fillColor   |-> IF bucket \in DOMAIN cmap THEN cmap[bucket] ELSE "white",
        color       |-> "black",
        weight      |-> 1,
        fillOpacity |-> 1]

\* style_function(feature): properties.get("Buckets", "gray"), then
\* color_map.get(bucket, "gray"); a null bucket is no key of the map
style_function(properties, cmap) ==
    LET bucket == IF "Buckets" \in DOMAIN properties THEN properties.Buckets ELSE "gray"
    IN [fillColor   |-> IF bucket \in DOMAIN cmap THEN cmap[bucket] ELSE "gray",
        color       |-> "black",
        weight      |-> 1,
        fillOpacity |-> 1]

\* folium.GeoJson(merged_gdf, ...): every row becomes a feature whose
\* properties are the row's columns; then the file name; return.
Render ==
    /\ pc = "render"
    /\ features' = merged_gdf
    /\ styles' = [k \in 1..Len(merged_gdf) |-> style_function(merged_gdf[k], color_map)]
    /\ file_name' = make_file_name(geography, state, boundary, metric, month_year)
    /\ pc' = "returned"
    /\ UNCHANGED << variant, table_entry, thread, other, today, months, year, month, session, page, clicks, earlier, geography, boundary, metric, state, merged_gdf, columns,
                    bins, color_map, q_idx, attempts, bin_edges, labels, exc >>

Next ==
    \/ Generate
    \/ Merge
    \/ CutByState
    \/ Classify
    \/ TryQuantile
    \/ AllAttemptsFailed
    \/ Render

Spec == Init /\ [][Next]_vars

-----------------------------------------------------------------------------
(* Dynamic binning on longer tables: a national district-level request for *)
(* a metric without a predefined scheme, whose warehouse rows arrive one   *)
(* by one in ascending order of value (ties allowed).                      *)

InitBin ==
    /\ variant \in Variants
    /\ table_entry = NoEntry
    /\ geography = "National"
    /\ boundary = "district_level"
    /\ metric = "GROSS_ADDS"
    /\ state = "N/A"
    /\ merged_gdf = << >>
    /\ columns = merged_columns("district_level")
    /\ bins = << >>
    /\ color_map = EmptyMap
    /\ q_idx = 1
    /\ attempts = << >>
    /\ bin_edges = << >>
    /\ labels = << >>
    /\ features = << >>
    /\ styles = << >>
    /\ earlier = << >>
    /\ thread = 1
    /\ other = NoThread
    /\ today = NoDate
    /\ months = << >>
    /\ year = start_year
    /\ month = start_month
    /\ session = EmptySession
    /\ page = EmptyPage
    /\ clicks = 0
    /\ file_name = ""
    /\ exc = "none"
    /\ pc = "query"

\* One more row of the merged table
FetchRow ==
    /\ pc = "query"
    /\ Len(merged_gdf) < MaxBinRows
    /\ \E n \in IF merged_gdf = << >> THEN BinBases
                ELSE {merged_gdf[Len(merged_gdf)].value[1] + d : d \in BinSteps} :
        merged_gdf' = Append(merged_gdf,
                             merged_row(boundary, Len(merged_gdf) + 1, << n >>))
    /\ UNCHANGED << variant, table_entry, thread, other, today, months, year, month, session, page, clicks, earlier, styles, geography, boundary, metric, state, columns, bins,
                    color_map, q_idx, attempts, bin_edges, labels, features,
                    file_name, exc, pc >>

\* The merged table is complete
FetchDone ==
    /\ pc = "query"
    /\ merged_gdf # << >>
    /\ pc' = "filter"
    /\ UNCHANGED << variant, table_entry, thread, other, today, months, year, month, session, page, clicks, earlier, styles, geography, boundary, metric, state, merged_gdf, columns,
                    bins, color_map, q_idx, attempts, bin_edges, labels, features,
                    file_name, exc >>

NextBin ==
    \/ FetchRow
    \/ FetchDone
    \/ CutByState
    \/ Classify
    \/ TryQuantile
    \/ AllAttemptsFailed
    \/ Render

SpecBin == InitBin /\ [][NextBin]_vars

-----------------------------------------------------------------------------
(* Vocabulary of the properties                                            *)

-----------------------------------------------------------------------------
(* SpecTwice: a request whose table is classified again, with the same     *)
(* scheme, after it was classified                                         *)

MaxPasses == 2

\* The classification code of generate_folium_map is entered again with the
\* table as the pass before left it
ClassifyAgain ==
    /\ pc = "render"
    /\ Len(earlier) < MaxPasses - 1
    /\ earlier' = Append(earlier, [table |-> merged_gdf, columns |-> columns,
                                   color_map |-> color_map])
    /\ pc' = "classify"
    /\ UNCHANGED << variant, table_entry, thread, other, today, months, year, month, session, page, clicks, styles, geography, boundary, metric, state,
                    merged_gdf, columns, bins, color_map, q_idx, attempts, bin_edges,
                    labels, features, file_name, exc >>

NextTwice ==
    \/ Generate
    \/ Merge
    \/ CutByState
    \/ Classify
    \/ TryQuantile
    \/ AllAttemptsFailed
    \/ ClassifyAgain
    \/ Render

SpecTwice == Init /\ [][NextTwice]_vars

-----------------------------------------------------------------------------
(* SpecCut: the predefined branch on declared schemes.  The entry of the   *)
(* bin table and of the colour table are inputs: cut points in any order,  *)
(* with or without repeats, one label fewer than cut points, and a colour  *)
(* table entry that has every label or lacks the first.                    *)

CutPointValues == {0, 50, 100}

CutPointCounts == {3, 4}

DeclaredLabels == << "low", "mid", "high" >>

DeclaredColors == [l \in {"low", "mid", "high"} |-> "#" \o l]

InitCut ==
    /\ variant \in Variants
    /\ geography = "National"
    /\ boundary = "district_level"
    /\ metric = "TRANSACTING_SMAs"
    /\ state = "N/A"
    /\ merged_gdf = << >>
    /\ columns = {}
    /\ \E n \in CutPointCounts, drop \in {{}, {"low"}} :
          \E b \in [1..n -> CutPointValues] :
             table_entry =
                [bins   |-> b,
                 labels |-> SubSeq(DeclaredLabels, 1, n - 1),
                 colors |-> [l \in {DeclaredLabels[i] : i \in 1..(n - 1)} \ drop |->
                               DeclaredColors[l]]]
    /\ bins = << >>
    /\ labels = << >>
    /\ color_map = EmptyMap
    /\ q_idx = 1
    /\ attempts = << >>
    /\ bin_edges = << >>
    /\ features = << >>
    /\ styles = << >>
    /\ earlier = << >>
    /\ thread = 1
    /\ other = NoThread
    /\ today = NoDate
    /\ months = << >>
    /\ year = start_year
    /\ month = start_month
    /\ session = EmptySession
    /\ page = EmptyPage
    /\ clicks = 0
    /\ file_name = ""
    /\ exc = "none"
    /\ pc = "query"

\* The predefined branch with the declared entry of the tables
ClassifyDeclared ==
    /\ pc = "classify"
    /\ apply_scheme(table_entry.bins, table_entry.labels, FALSE, table_entry.colors)
    /\ UNCHANGED << variant, table_entry, thread, other, today, months, year, month, session, page, clicks, earlier, styles, geography, boundary, metric, state, q_idx, attempts,
                    bin_edges, features, file_name >>

NextCut ==
    \/ Merge
    \/ CutByState
    \/ ClassifyDeclared
    \/ Render

SpecCut == InitCut /\ [][NextCut]_vars

-----------------------------------------------------------------------------
(* SpecSession: the Streamlit script around generate_folium_map, over the  *)
(* Generate clicks of one browser session                                  *)

\* The Generate clicks that are followed
ClickSerials == {1, 2}

\* folium_map.get_root().render().encode("utf-8") of the map that click n
\* generated: the document of that map
render(n, name) == [click |-> n, map |-> name]

\* The download control of the header: the stored document under the stored
\* name once a map was stored, a disabled control with dummy content before
download_button(sess) ==
    IF "map_file_bytes" \in DOMAIN sess
    THEN [disabled  |-> FALSE,
          data      |-> sess["map_file_bytes"],
          file_name |-> IF "map_file_name" \in DOMAIN sess THEN sess["map_file_name"]
                        ELSE "map.html"]
    ELSE [disabled |-> TRUE, data |-> << >>, file_name |-> "map.html"]

\* map_app_v1.py renders the header, with the download control, before the
\* "if generate_clicked" block; map_app.py renders the control after the map
page_head(var, sess) ==
    IF var = "map_app_v1" THEN [EmptyPage EXCEPT !.download = download_button(sess)]
    ELSE EmptyPage

\* The locals of generate_folium_map are gone when the script run ends
run_ends ==
    /\ pc' = "idle"
    /\ geography' = "National"
    /\ boundary' = "district_level"
    /\ metric' = "TRANSACTING_SMAs"
    /\ state' = "N/A"
    /\ merged_gdf' = << >>
    /\ columns' = {}
    /\ bins' = << >>
    /\ color_map' = EmptyMap
    /\ q_idx' = 1
    /\ attempts' = << >>
    /\ bin_edges' = << >>
    /\ labels' = << >>
    /\ features' = << >>
    /\ styles' = << >>
    /\ file_name' = ""
    /\ exc' = "none"
    /\ UNCHANGED << variant, table_entry, thread, other, today, months, year, month, earlier, clicks >>

\* metric values a warehouse row may carry (SpecSession)
SessionValues == {0, 50}

MergeInSession == merge_from(SessionValues)

\* The operator clicks Generate: the script runs from the top with the
\* choices of the sidebar and calls generate_folium_map
ClickGenerate ==
    /\ clicks + 1 \in ClickSerials
    /\ clicks' = clicks + 1
    /\ page' = page_head(variant, session)
    /\ call_generate(Boundaries)
    /\ UNCHANGED session

\* ShowMap as it would be if the file name were stored before the map is
\* rendered: a render that raises leaves the new name with the old document
RenderRaisesAfterName ==
    /\ pc = "returned"
    /\ "Buckets" \notin columns
    /\ page' = [page EXCEPT !.error = "AssertionError"]
    /\ session' = ("map_file_name" :> file_name) @@ session
    /\ run_ends

\* generate_folium_map returned and the map renders: the document and the
\* file name are stored, the map is shown; map_app.py now renders the
\* download control
ShowMap ==
    /\ pc = "returned"
    /\ LET doc == render(clicks, file_name)
           stored == IF variant = "map_app_v1"
                     THEN ("map_file_bytes" :> doc) @@ ("map_file_name" :> file_name)
                             @@ ("map_html" :> doc)
                     ELSE ("map_file_bytes" :> doc) @@ ("map_file_name" :> file_name)
       IN /\ session' = stored
          /\ page' = IF variant = "map_app"
                     THEN [page EXCEPT !.map = doc, !.download = download_button(stored)]
                     ELSE [page EXCEPT !.map = doc]
    /\ run_ends

\* generate_folium_map returned a map whose tooltip names the field Buckets
\* while the features have none: rendering the map may raise, before anything
\* is stored; the except branch reports it
RenderRaises ==
    /\ pc = "returned"
    /\ "Buckets" \notin columns
    /\ page' = [page EXCEPT !.error = "AssertionError"]
    /\ UNCHANGED session
    /\ run_ends

\* except Exception as e: st.error(...)
ReportError ==
    /\ pc = "raised"
    /\ page' = [page EXCEPT !.error = exc]
    /\ UNCHANGED session
    /\ run_ends

\* The script runs again without a Generate click
Rerun ==
    /\ pc = "idle"
    /\ clicks > 0
    /\ page' = page_head(variant, session)
    /\ UNCHANGED << variant, table_entry, thread, other, today, months, year, month, session, clicks, earlier, geography, boundary,
                    metric, state, merged_gdf, columns, bins, color_map, q_idx, attempts,
                    bin_edges, labels, features, styles, file_name, exc, pc >>

NextSession ==
    \/ ClickGenerate
    \/ MergeInSession
    \/ CutByState
    \/ Classify
    \/ TryQuantile
    \/ AllAttemptsFailed
    \/ Render
    \/ ShowMap
    \/ RenderRaises
    \/ ReportError
    \/ Rerun

SpecSession == Init /\ [][NextSession]_vars

\* The request resolved to a predefined scheme
Predefined ==
    /\ boundary \in Boundaries
    /\ metric \in DOMAIN metric_list_to_be_used(variant, boundary)

\* The request fell through to get_valid_bins
Dynamic ==
    /\ boundary \in Boundaries
    /\ metric \notin DOMAIN metric_list_to_be_used(variant, boundary)

\* Classification has completed and the table carries its result
Classified == pc \in {"render", "returned"}

\* pd.cut raised inside generate_folium_map
ClassifyRaised == pc = "raised" /\ exc = "ValueError" /\ boundary \in Boundaries

RowKey(r) == IF "STATE_NAME" \in DOMAIN r THEN r.STATE_NAME ELSE r.DISTRICT_NAME

BucketOf(r) == IF "Buckets" \in DOMAIN r THEN r.Buckets ELSE NaN

StrictlyIncreasing(s) == \A i \in 1..(Len(s) - 1) : s[i] < s[i + 1]

-----------------------------------------------------------------------------
(* C1: in every entry of the district-level and state-level bin tables of  *)
(* the running variant, the number of cut points is the number of labels   *)
(* plus one and the de-duplicated cut points are strictly increasing.      *)
C1_BinTablesWellFormed ==
    \A b \in Boundaries :
        \A m \in DOMAIN metric_list_to_be_used(variant, b) :
            LET scheme == metric_list_to_be_used(variant, b)[m]
            IN /\ Len(scheme.bins) = Len(scheme.labels) + 1
               /\ StrictlyIncreasing(unique(scheme.bins))

-----------------------------------------------------------------------------
(* C2, as claimed: after predefined classification a row with value v      *)
(* carries labels[i] exactly when bins[i] <= v < bins[i+1] (left-closed,   *)
(* right-open), so a value equal to the lowest cut point gets the first    *)
(* label.                                                                  *)
C2_LeftClosedRightOpen ==
    (Predefined /\ Classified) =>
        \A k \in 1..Len(merged_gdf) : \A i \in 1..Len(labels) :
            LET r == merged_gdf[k]
            IN (BucketOf(r) = labels[i])
                 <=> (~IsNa(r.value) /\ bins[i] <= r.value[1] /\ r.value[1] < bins[i + 1])

(* C2, amended: whenever pd.cut completes, a row with value v carries      *)
(* labels[i] exactly when bins[i] < v <= bins[i+1] (right-closed,          *)
(* left-open); a row whose value equals the lowest cut point is left       *)
(* unclassified.                                                           *)
C2_RightClosedLeftOpen ==
    (Predefined /\ Classified) =>
        \A k \in 1..Len(merged_gdf) :
            LET r == merged_gdf[k]
            IN /\ \A i \in 1..Len(labels) :
                    (BucketOf(r) = labels[i])
                      <=> (~IsNa(r.value) /\ bins[i] < r.value[1] /\ r.value[1] <= bins[i + 1])
               /\ (~IsNa(r.value) /\ r.value[1] = bins[1]) => BucketOf(r) = NaN

\* A classified table with a row on the lowest cut point (unclassified) and a
\* row on the upper edge of the first bucket (first label)
C2_Witness ==
    /\ Predefined /\ Classified
    /\ \E k \in 1..Len(merged_gdf) :
          /\ merged_gdf[k].value = << bins[1] >>
          /\ merged_gdf[k].Buckets = NaN
    /\ \E k \in 1..Len(merged_gdf) :
          /\ merged_gdf[k].value = << bins[2] >>
          /\ merged_gdf[k].Buckets = labels[1]

-----------------------------------------------------------------------------
(* C3: the district-level scheme applied for TRANSACTING_SMAs has cut      *)
(* points [0,50,100,250,500,1000,inf] and labels "0-50" .. ">1000"; a row  *)
(* with value 75 is classified "50-100" and a row with value 5000 ">1000". *)
C3_DistrictTransactingScheme ==
    (/\ Classified /\ boundary = "district_level" /\ metric = "TRANSACTING_SMAs"
     /\ \E k \in 1..Len(merged_gdf) : merged_gdf[k].value \in {<< 75 >>, << 5000 >>}) =>
        /\ bins = << 0, 50, 100, 250, 500, 1000, inf >>
        /\ labels = << "0-50", "50-100", "100-250", "250-500", "500-1000", ">1000" >>
        /\ \A k \in 1..Len(merged_gdf) :
              /\ merged_gdf[k].value = << 75 >> => merged_gdf[k].Buckets = "50-100"
              /\ merged_gdf[k].value = << 5000 >> => merged_gdf[k].Buckets = ">1000"

-----------------------------------------------------------------------------
(* C4: under a predefined scheme pd.cut raises no error; every row then    *)
(* carries exactly one label of the scheme or none; a row whose value is   *)
(* null or lies outside all cut points carries none; and the value of a    *)
(* labelled row lies between the two cut points of its label.              *)
C4_OneLabelOrNoneWithoutError ==
    (Predefined /\ merged_gdf # << >>) =>
        /\ ~ClassifyRaised
        /\ Classified =>
             \A k \in 1..Len(merged_gdf) :
                LET r == merged_gdf[k]
                    hits == {i \in 1..Len(labels) : r.Buckets = labels[i]}
                IN /\ "Buckets" \in DOMAIN r
                   /\ r.Buckets = NaN \/ Cardinality(hits) = 1
                   /\ (IsNa(r.value) \/ r.value[1] < bins[1] \/ r.value[1] > bins[Len(bins)])
                         => r.Buckets = NaN
                   /\ \A i \in hits : bins[i] <= r.value[1] /\ r.value[1] <= bins[i + 1]

-----------------------------------------------------------------------------
(* C5: classification of a non-empty table, by a predefined scheme or by   *)
(* dynamic binning, yields a table with one row per input row, in the same *)
(* order and with the same region key and metric value.                    *)
C5_RowCountPreserved ==
    [][(pc \in {"classify", "binning"} /\ merged_gdf # << >>) =>
          /\ pc' # "raised"
          /\ Len(merged_gdf') = Len(merged_gdf)
          /\ \A k \in 1..Len(merged_gdf) :
                /\ RowKey(merged_gdf'[k]) = RowKey(merged_gdf[k])
                /\ merged_gdf'[k].value = merged_gdf[k].value]_vars

-----------------------------------------------------------------------------
(* Vocabulary of the dynamic-binning properties                            *)

\* get_valid_bins has returned
BinningDone == Dynamic /\ Classified

\* The ascending non-null values of the metric column
ColumnValues == dropna_sorted(column_of(merged_gdf))

\* The edges of quantile count q (times q) are strictly increasing
EdgesIncrease(q) == ColumnValues # << >> /\ StrictlyIncreasing(quantile(ColumnValues, q))

\* t is the float e / q cut toward zero
IsTruncation(t, e, q) ==
    IF e >= 0 THEN q * t <= e /\ e < q * (t + 1)
    ELSE q * (t - 1) < e /\ e <= q * t

\* t is the float e / q rounded to the nearest integer, halves to even
IsRounding(t, e, q) ==
    \/ 2 * q * t - q < 2 * e /\ 2 * e < 2 * q * t + q
    \/ t % 2 = 0 /\ (2 * e = 2 * q * t - q \/ 2 * e = 2 * q * t + q)

\* The integers an edge of the column can convert to
EdgeIntegers ==
    LET lo == IF ColumnValues[1] < 0 THEN ColumnValues[1] ELSE 0
        hi == IF ColumnValues[Len(ColumnValues)] > 0
              THEN ColumnValues[Len(ColumnValues)] ELSE 0
    IN lo..hi

\* The labels of quantile count q, from the truncated edges, are pairwise distinct
TruncatedLabelsDistinct(q) ==
    LET e == quantile(ColumnValues, q)
        t(i) == CHOOSE n \in EdgeIntegers : IsTruncation(n, e[i], q)
    IN \A i, j \in 1..q : i # j => << t(i), t(i + 1) >> # << t(j), t(j + 1) >>

Succeeded == attempts # << >> /\ attempts[Len(attempts)].outcome = "ok"

-----------------------------------------------------------------------------
(* C6, as claimed: the quantile counts are tried in the order 10, 5, 4, 3, *)
(* 2; an attempt is rejected only when its edges are not all distinct; the *)
(* first count with strictly increasing edges succeeds; nothing is tried   *)
(* after a success.                                                        *)
C6_RejectedOnlyForEdges ==
    (Dynamic /\ pc \in {"binning", "render", "returned"}) =>
        /\ \A i \in 1..Len(attempts) :
              /\ attempts[i].q = bin_options[i]
              /\ (attempts[i].outcome = "ok") <=> EdgesIncrease(attempts[i].q)
              /\ attempts[i].outcome = "ok" => i = Len(attempts)
        /\ Succeeded => pc # "binning"

(* C6, amended: the quantile counts are tried in the order 10, 5, 4, 3, 2; *)
(* an attempt is rejected when its edges are not all distinct or when two  *)
(* of the labels built from its truncated edges are equal; the first count *)
(* whose edges are strictly increasing and whose labels are pairwise       *)
(* distinct succeeds; nothing is tried after a success, and without a      *)
(* success all five counts are tried.                                      *)
C6_RejectedForEdgesOrLabels ==
    (Dynamic /\ pc \in {"binning", "render", "returned"}) =>
        /\ Len(attempts) <= Len(bin_options)
        /\ \A i \in 1..Len(attempts) :
              /\ attempts[i].q = bin_options[i]
              /\ (attempts[i].outcome = "ok")
                    <=> (EdgesIncrease(attempts[i].q)
                           /\ TruncatedLabelsDistinct(attempts[i].q))
              /\ attempts[i].outcome = "ok" => i = Len(attempts)
        /\ Succeeded => pc # "binning"
        /\ (Classified /\ ~Succeeded) => Len(attempts) = Len(bin_options)

\* A count with strictly increasing edges was rejected and a smaller one succeeded
C6_Witness ==
    /\ BinningDone /\ Succeeded
    /\ \E i \in 1..(Len(attempts) - 1) :
          attempts[i].outcome # "ok" /\ EdgesIncrease(attempts[i].q)

-----------------------------------------------------------------------------
(* C7, as claimed: on a table with at least 10 rows and at least 10        *)
(* distinct values dynamic binning succeeds at quantile count 10 and       *)
(* returns 10 labels and a colour map with 10 entries.                     *)
C7_TenRowsTenDistinct ==
    (/\ BinningDone
     /\ Len(merged_gdf) >= 10
     /\ Cardinality({ColumnValues[i] : i \in 1..Len(ColumnValues)}) >= 10) =>
        /\ attempts = << [q |-> 10, outcome |-> "ok"] >>
        /\ Len(labels) = 10
        /\ Cardinality(DOMAIN color_map) = 10

(* C7, amended: on a table with at least 10 non-null integer values, no    *)
(* two of them equal, dynamic binning succeeds at quantile count 10; and   *)
(* every success at quantile count 10 returns 10 labels and a colour map   *)
(* with 10 entries.                                                        *)
C7_TenPairwiseDistinct ==
    BinningDone =>
        /\ (Len(ColumnValues) >= 10 /\ StrictlyIncreasing(ColumnValues)) =>
              attempts = << [q |-> 10, outcome |-> "ok"] >>
        /\ attempts = << [q |-> 10, outcome |-> "ok"] >> =>
              /\ Len(labels) = 10
              /\ Cardinality(DOMAIN color_map) = 10

\* Ten or more rows without a tie, binned at quantile count 10
C7_Witness ==
    /\ BinningDone
    /\ Len(ColumnValues) >= 10
    /\ StrictlyIncreasing(ColumnValues)
    /\ attempts = << [q |-> 10, outcome |-> "ok"] >>
    /\ Cardinality(DOMAIN color_map) = 10

-----------------------------------------------------------------------------
(* C8: when all five quantile attempts fail, which is the case whenever    *)
(* the column has fewer than 2 distinct values, get_valid_bins returns an  *)
(* empty colour map without raising, and no row carries a bucket.          *)
C8_ExhaustionReturnsEmptyMap ==
    LET failed == Len(attempts) = Len(bin_options)
                    /\ \A i \in 1..Len(attempts) : attempts[i].outcome # "ok"
    IN /\ (Dynamic /\ failed /\ pc # "binning") =>
             /\ pc \in {"render", "returned"}
             /\ exc = "none"
             /\ color_map = EmptyMap
             /\ "Buckets" \notin columns
             /\ \A k \in 1..Len(merged_gdf) : BucketOf(merged_gdf[k]) = NaN
       /\ (/\ Dynamic /\ pc \notin {"idle", "query", "filter", "classify", "binning"}
           /\ Cardinality({ColumnValues[i] : i \in 1..Len(ColumnValues)}) < 2) => failed

\* Ten or more rows, all with the same value, after get_valid_bins returned
C8_Witness ==
    /\ BinningDone
    /\ Len(merged_gdf) >= 10
    /\ \A k \in 1..Len(merged_gdf) : merged_gdf[k].value = merged_gdf[1].value
    /\ Len(attempts) = Len(bin_options)
    /\ color_map = EmptyMap

-----------------------------------------------------------------------------
(* C9: every feature handed to folium.GeoJson carries the bucket field     *)
(* next to its region name and metric value, also when dynamic binning     *)
(* exhausted all quantile attempts.                                        *)
C9_FeaturesCarryBucket ==
    pc = "returned" =>
        \A k \in 1..Len(features) :
            /\ "value" \in DOMAIN features[k]
            /\ "Buckets" \in DOMAIN features[k]
            /\ {"STATE_NAME", "DISTRICT_NAME"} \cap DOMAIN features[k] # {}

-----------------------------------------------------------------------------
(* C10, as claimed: on success at quantile count q there is one label per  *)
(* bucket, and label i is "{lower}-{upper}" with edges i and i+1 rounded   *)
(* to the nearest integer.                                                 *)
C10_LabelsFromRoundedEdges ==
    (BinningDone /\ Succeeded) =>
        /\ Len(labels) = attempts[Len(attempts)].q
        /\ Len(bin_edges) = Len(labels) + 1
        /\ \A i \in 1..Len(labels) :
              \E a, b \in EdgeIntegers \cup {n + 1 : n \in EdgeIntegers} :
                 /\ IsRounding(a, bin_edges[i], Len(labels))
                 /\ IsRounding(b, bin_edges[i + 1], Len(labels))
                 /\ labels[i] = ToString(a) \o "-" \o ToString(b)

(* C10, amended: on success at quantile count q there is one label per     *)
(* bucket, and label i is "{lower}-{upper}" with edges i and i+1 cut to    *)
(* their integer part (truncated toward zero).                             *)
C10_LabelsFromTruncatedEdges ==
    (BinningDone /\ Succeeded) =>
        /\ Len(labels) = attempts[Len(attempts)].q
        /\ Len(bin_edges) = Len(labels) + 1
        /\ \A i \in 1..Len(labels) :
              \E a, b \in EdgeIntegers :
                 /\ IsTruncation(a, bin_edges[i], Len(labels))
                 /\ IsTruncation(b, bin_edges[i + 1], Len(labels))
                 /\ labels[i] = ToString(a) \o "-" \o ToString(b)

\* A success with a negative edge that is no integer, and a positive one
C10_Witness ==
    /\ BinningDone /\ Succeeded
    /\ \E i \in 1..Len(bin_edges) :
          bin_edges[i] < 0 /\ bin_edges[i] % Len(labels) # 0
    /\ \E i \in 1..Len(bin_edges) :
          bin_edges[i] > 0 /\ bin_edges[i] % Len(labels) # 0

-----------------------------------------------------------------------------
(* C11: on success the dynamic colour map has one entry per bucket, and    *)
(* the label of the i-th lowest bucket has step i of the palette, counted  *)
(* from the red end: the lowest bucket is the reddest and the highest the  *)
(* greenest.                                                               *)
C11_ColoursInBucketOrder ==
    (BinningDone /\ Succeeded) =>
        /\ StrictlyIncreasing(bin_edges)
        /\ Cardinality(DOMAIN color_map) = Len(bin_edges) - 1
        /\ \A i \in 1..(Len(bin_edges) - 1) :
              /\ labels[i] \in DOMAIN color_map
              /\ color_map[labels[i]] = << "RdYlGn", Len(bin_edges) - 1, i >>
        /\ variant = "map_app_v1" =>
              \A k \in 1..Len(merged_gdf) :
                 \A i \in 1..Len(labels) :
                    merged_gdf[k].Buckets = labels[i] =>
                        merged_gdf[k].color = << "RdYlGn", Len(labels), i >>

\* A success with three or more buckets, the red end and the green end in use
C11_Witness ==
    /\ BinningDone /\ Succeeded
    /\ Len(labels) >= 3
    /\ color_map[labels[1]] = << "RdYlGn", Len(labels), 1 >>
    /\ color_map[labels[Len(labels)]] = << "RdYlGn", Len(labels), Len(labels) >>
    /\ \E k \in 1..Len(merged_gdf) : merged_gdf[k].Buckets = labels[Len(labels)]

-----------------------------------------------------------------------------
(* C12: the scheme of a request is looked up by boundary level and metric. *)
(* A district_level request reads the district tables only and a           *)
(* state_level request the state tables only.  When the bin table of the   *)
(* level has the metric, its cut points and labels are handed to pd.cut as *)
(* they are declared and the colour map of a completed classification is   *)
(* the metric's entry of the level's colour table; the lookup itself       *)
(* raises nothing.  When the table lacks the metric the request goes on to *)
(* get_valid_bins, and from there on it raises no error.                   *)
C12_SchemeLookupByLevelAndMetric ==
    [][LET district == boundary = "district_level"
           T == IF variant = "map_app"
                THEN IF district THEN predefined_metric_bins_district_level
                     ELSE predefined_metric_bins_state_level
                ELSE IF district THEN v1_predefined_metric_bins_district_level
                     ELSE v1_predefined_metric_bins_state_level
           K == IF variant = "map_app"
                THEN IF district THEN predefined_metric_colors_district_level
                     ELSE predefined_metric_colors_state_level
                ELSE IF district THEN v1_predefined_metric_colors_district_level
                     ELSE v1_predefined_metric_colors_state_level
       IN /\ (pc = "classify" /\ metric \in DOMAIN T) =>
                /\ bins' = T[metric].bins
                /\ labels' = T[metric].labels
                /\ pc' \in {"render", "raised"}
                /\ pc' = "render" => color_map' = K[metric]
                /\ pc' = "raised" => exc' = "ValueError"
          /\ (pc = "classify" /\ metric \notin DOMAIN T) =>
                pc' = "binning" /\ exc' = "none"
          /\ (pc \in {"binning", "render"} /\ metric \notin DOMAIN T) =>
                pc' \in {"binning", "render", "returned"} /\ exc' = "none"
      ]_vars

\* A state_level request of a metric that only the state tables of
\* map_app.py have, classified with the state scheme
C12_Witness ==
    /\ variant = "map_app"
    /\ boundary = "state_level"
    /\ metric = "SP_USAGE_CHURN_non_CMS"
    /\ pc = "returned"
    /\ bins = << 0, 50, 100, 200, 300, inf >>
    /\ color_map = predefined_metric_colors_state_level[metric]
    /\ \E k \in 1..Len(features) : features[k].Buckets = "50-100"

-----------------------------------------------------------------------------
(* Vocabulary of the properties of declared schemes                        *)

\* Every arrangement of the sequence s
Arrangements(s) ==
    {[i \in 1..Len(s) |-> s[f[i]]] : f \in Permutations(1..Len(s))}

Repeats(s) == \E i, j \in 1..Len(s) : i # j /\ s[i] = s[j]

\* The bucket of the number v under cut points without repeats, read off the
\* set of cut points alone: the label whose rank is the number of cut points
\* below v
BucketByRank(cuts, lbls, v) ==
    LET below == Cardinality({i \in 1..Len(cuts) : cuts[i] < v})
    IN IF below = 0 \/ below = Len(cuts) THEN NaN ELSE lbls[below]

-----------------------------------------------------------------------------
(* C13: the cut points of a predefined scheme are sorted ascending before  *)
(* they are compared with values: whatever the declared order of the cut   *)
(* points, the outcome of classification is the one of every other         *)
(* arrangement of the same cut points under the same labels, and without   *)
(* repeated cut points the bucket of a row is the label whose rank is the  *)
(* number of cut points below the row's value.                             *)
C13_DeclaredOrderIrrelevant ==
    [][pc = "classify" =>
          /\ bins' \in Arrangements(table_entry.bins) /\ StrictlyIncreasing(unique(bins'))
          /\ \A p \in Arrangements(table_entry.bins) :
                LET cut == pd_cut(column_of(merged_gdf), sorted(p), table_entry.labels)
                IN IF cut.raised # "none"
                   THEN pc' = "raised" /\ exc' = cut.raised
                   ELSE /\ pc' = "render"
                        /\ \A k \in 1..Len(merged_gdf) :
                              merged_gdf'[k].Buckets = cut.values[k]
          /\ ~Repeats(table_entry.bins) =>
                /\ pc' = "render"
                /\ \A k \in 1..Len(merged_gdf) :
                      merged_gdf'[k].Buckets =
                         IF IsNa(merged_gdf[k].value) THEN NaN
                         ELSE BucketByRank(table_entry.bins, table_entry.labels, merged_gdf[k].value[1])
      ]_vars

\* A scheme declared in descending order has classified a row
C13_Witness ==
    /\ pc = "returned"
    /\ table_entry.bins = << 100, 50, 0 >>
    /\ bins = << 0, 50, 100 >>
    /\ \E k \in 1..Len(features) :
          features[k].value = << 75 >> /\ features[k].Buckets = "mid"

-----------------------------------------------------------------------------
(* C14: a predefined scheme whose cut points contain adjacent duplicate    *)
(* values never makes classification fail: the duplicate edges are         *)
(* dropped, classification completes with fewer effective buckets, and no  *)
(* error is raised for the request.                                        *)
C14_DuplicateCutPointsDropped ==
    (/\ table_entry # NoEntry
     /\ Repeats(table_entry.bins)
     /\ merged_gdf # << >>
     /\ pc \in {"raised", "render", "returned"}) =>
        /\ pc # "raised"
        /\ exc = "none"
        /\ "Buckets" \in columns

-----------------------------------------------------------------------------
(* C15, as claimed: the returned file name is                              *)
(* MAP_State_<state>_<boundary>_<metric>_<month>.html for a request of     *)
(* state scope and MAP_National_<boundary>_<metric>_<month>.html           *)
(* otherwise; the request (State, BIHAR, state_level, TRANSACTING_SMAs,    *)
(* 2025-03-01) returns                                                     *)
(* MAP_State_BIHAR_state_level_TRANSACTING_SMAs_2025-03-01.html.           *)
C15_FileNameOfRequestedScope ==
    pc = "returned" =>
        /\ file_name =
              IF state \in States
              THEN "MAP_State_" \o state \o "_" \o boundary \o "_" \o metric \o "_"
                      \o month_year \o ".html"
              ELSE "MAP_National_" \o boundary \o "_" \o metric \o "_"
                      \o month_year \o ".html"
        /\ (state = "BIHAR" /\ boundary = "state_level" /\ metric = "TRANSACTING_SMAs") =>
              file_name = "MAP_State_BIHAR_state_level_TRANSACTING_SMAs_2025-03-01.html"

(* C15, amended: the returned file name is a function of the geography the *)
(* request is processed with, the state, the boundary, the metric and the  *)
(* month.  map_app.py processes a State request of state_level boundary as *)
(* National, so (State, BIHAR, state_level, TRANSACTING_SMAs, 2025-03-01)  *)
(* returns MAP_National_state_level_TRANSACTING_SMAs_2025-03-01.html;      *)
(* every other State request that returns is named                         *)
(* MAP_State_<state>_<boundary>_<metric>_<month>.html, and every National  *)
(* request MAP_National_<boundary>_<metric>_<month>.html.                  *)
C15_FileNameOfProcessedScope ==
    pc = "returned" =>
        /\ file_name =
              IF state \in States /\ ~(variant = "map_app" /\ boundary = "state_level")
              THEN "MAP_State_" \o state \o "_" \o boundary \o "_" \o metric \o "_"
                      \o month_year \o ".html"
              ELSE "MAP_National_" \o boundary \o "_" \o metric \o "_"
                      \o month_year \o ".html"
        /\ (/\ variant = "map_app" /\ state = "BIHAR" /\ boundary = "state_level"
            /\ metric = "TRANSACTING_SMAs") =>
              file_name = "MAP_National_state_level_TRANSACTING_SMAs_2025-03-01.html"
        /\ (state = "BIHAR" /\ boundary = "district_level" /\ metric = "TRANSACTING_SMAs") =>
              file_name = "MAP_State_BIHAR_district_level_TRANSACTING_SMAs_2025-03-01.html"

\* map_app.py has returned from the request (State, BIHAR, state_level,
\* TRANSACTING_SMAs, 2025-03-01)
C15_Witness ==
    /\ variant = "map_app"
    /\ pc = "returned"
    /\ state = "BIHAR"
    /\ boundary = "state_level"
    /\ metric = "TRANSACTING_SMAs"
    /\ file_name = "MAP_National_state_level_TRANSACTING_SMAs_2025-03-01.html"

-----------------------------------------------------------------------------
-----------------------------------------------------------------------------
(* C17: for every metric of a bin table, district or state, of the variant *)
(* that runs, the colour table of the same level has the metric, and every *)
(* label of the metric's bin entry is a key of the metric's colour entry.  *)
C17_EveryLabelHasAColour ==
    LET B(b) == IF variant = "map_app"
                THEN IF b = "district_level" THEN predefined_metric_bins_district_level
                     ELSE predefined_metric_bins_state_level
                ELSE IF b = "district_level" THEN v1_predefined_metric_bins_district_level
                     ELSE v1_predefined_metric_bins_state_level
        K(b) == IF variant = "map_app"
                THEN IF b = "district_level" THEN predefined_metric_colors_district_level
                     ELSE predefined_metric_colors_state_level
                ELSE IF b = "district_level" THEN v1_predefined_metric_colors_district_level
                     ELSE v1_predefined_metric_colors_state_level
    IN \A b \in {"district_level", "state_level"} :
          \A m \in DOMAIN B(b) :
             /\ m \in DOMAIN K(b)
             /\ \A i \in 1..Len(B(b)[m].labels) : B(b)[m].labels[i] \in DOMAIN K(b)[m]

\* A row classified with a predefined scheme carries a label that has a colour
C17_Witness ==
    /\ pc = "returned"
    /\ boundary = "state_level"
    /\ metric = "SP_USAGE_CHURN_non_CMS"
    /\ \E k \in 1..Len(features) :
          /\ features[k].Buckets = ">300"
          /\ ">300" \in DOMAIN color_map

-----------------------------------------------------------------------------
(* C18: the style rule gives every feature the colour that the colour map  *)
(* of the request has for the feature's bucket label, and gray when the    *)
(* feature has no bucket or the colour map has no entry for its label; the *)
(* request returns and nothing is raised.                                  *)
C18_ColourOfBucketOrGray ==
    pc = "returned" =>
        /\ exc = "none"
        /\ Len(styles) = Len(features)
        /\ \A k \in 1..Len(features) :
              LET p == features[k]
              IN IF "Buckets" \in DOMAIN p /\ p.Buckets # NaN
                    /\ p.Buckets \in DOMAIN color_map
                 THEN styles[k].fillColor = color_map[p.Buckets]
                 ELSE styles[k].fillColor = "gray"

\* A request has returned one feature with the colour of its label and one
\* whose label has no colour
C18_Witness ==
    /\ pc = "returned"
    /\ \E i, j \in 1..Len(features) :
          /\ features[i].Buckets = "mid" /\ styles[i].fillColor = "#mid"
          /\ features[j].Buckets = "low" /\ "low" \notin DOMAIN color_map
          /\ styles[j].fillColor = "gray"

-----------------------------------------------------------------------------
(* C19: classification is idempotent.  When a table that was classified    *)
(* is classified again with the same scheme, predefined or dynamic, the    *)
(* table with its bucket column (and colour column) and the colour map are *)
(* those of the first pass; a pass that completed does not fail when it is *)
(* repeated.                                                               *)
C19_ClassifyingTwiceChangesNothing ==
    (earlier # << >> /\ pc \in {"raised", "render", "returned"}) =>
        /\ pc # "raised"
        /\ merged_gdf = earlier[Len(earlier)].table
        /\ columns = earlier[Len(earlier)].columns
        /\ color_map = earlier[Len(earlier)].color_map

\* Dynamic binning has run a second time on a table that carried the bucket
\* column of a successful first run
C19_Witness ==
    /\ Dynamic
    /\ pc = "returned"
    /\ earlier # << >>
    /\ "Buckets" \in earlier[1].columns
    /\ Succeeded
    /\ \E k \in 1..Len(merged_gdf) : merged_gdf[k].Buckets # NaN

-----------------------------------------------------------------------------
(* C20: classification has no side effect on its inputs: no step of a      *)
(* request changes the declared entry of the bin and colour tables, and    *)
(* get_valid_bins does not change the row table it is given: the caller's  *)
(* table has the same columns and the same values after the call as        *)
(* before.                                                                 *)
C20_InputsUntouched ==
    [][/\ table_entry' = table_entry
       /\ pc = "binning" =>
             /\ columns' = columns
             /\ merged_gdf' = merged_gdf
      ]_vars

-----------------------------------------------------------------------------
(* Vocabulary of the properties of the merge and the state cut             *)

\* Region k of the boundary file belongs to what the request asks for
InScope(k) ==
    (boundary = "district_level" /\ state \in States) => StateOfDistrict(k) = state

\* The feature p is region k of the boundary file
IsRegion(p, k) ==
    IF boundary = "state_level" THEN p.STATE_NAME = StateName(k)
    ELSE p.District = DistrictName(k)

-----------------------------------------------------------------------------
(* C21: for every request, also one of state scope, every region of the    *)
(* boundary file that the request asks for is among the returned features; *)
(* a region without a row in the metric table has a null metric value, no  *)
(* bucket, and is rendered gray.                                           *)
C21_RegionsWithoutMetricKept ==
    pc = "returned" =>
        \A k \in 1..NumRegions :
            InScope(k) =>
                \E i \in 1..Len(features) :
                    /\ IsRegion(features[i], k)
                    /\ IsNa(features[i].value) =>
                          /\ BucketOf(features[i]) = NaN
                          /\ styles[i].fillColor = "gray"

-----------------------------------------------------------------------------
(* C22: when a script run has generated a map and shows it, the download   *)
(* control on the page is enabled and offers the document and the file     *)
(* name of that map, not dummy content and not the map of an earlier       *)
(* click.                                                                  *)
C22_DownloadOffersTheMapShown ==
    page.map # << >> =>
        /\ page.download # << >>
        /\ ~page.download.disabled
        /\ page.download.data = page.map
        /\ page.download.file_name = page.map.map

-----------------------------------------------------------------------------
(* C28: over every sequence of Generate clicks, the session entries        *)
(* map_file_bytes and map_file_name are both absent or both present, and   *)
(* then the name is the one of the stored document; the entries change     *)
(* only when a generation succeeds and its map is shown; a generation that *)
(* raises is reported as an error and leaves the session as it was.        *)
C28_SessionEntriesOfOneGeneration ==
    [][/\ ("map_file_bytes" \in DOMAIN session') <=> ("map_file_name" \in DOMAIN session')
       /\ "map_file_bytes" \in DOMAIN session' =>
             /\ session'["map_file_bytes"].map = session'["map_file_name"]
             /\ session'["map_file_bytes"].click \in 1..clicks'
       /\ session' # session =>
             /\ pc = "returned" /\ exc = "none"
             /\ page'.map = session'["map_file_bytes"]
             /\ session'["map_file_bytes"] = [click |-> clicks, map |-> file_name]
       /\ pc = "raised" =>
             /\ session' = session
             /\ page'.error = exc /\ page'.map = << >>
       /\ (pc = "returned" /\ page'.map = << >>) =>
             /\ session' = session
             /\ page'.error # "none"
      ]_vars

\* The second click raised, and the session still has the document and the
\* name of the first
C28_Witness ==
    /\ clicks = 2
    /\ pc = "idle"
    /\ page.error = "ValueError"
    /\ "map_file_bytes" \in DOMAIN session
    /\ session["map_file_bytes"].click = 1
    /\ session["map_file_name"] = session["map_file_bytes"].map

-----------------------------------------------------------------------------
(* The month list, one action per step of the loop                         *)

InitMonths ==
    /\ variant \in Variants
    /\ table_entry = NoEntry
    /\ geography = "National"
    /\ boundary = "district_level"
    /\ metric = "TRANSACTING_SMAs"
    /\ state = "N/A"
    /\ merged_gdf = << >>
    /\ columns = {}
    /\ bins = << >>
    /\ color_map = EmptyMap
    /\ q_idx = 1
    /\ attempts = << >>
    /\ bin_edges = << >>
    /\ labels = << >>
    /\ features = << >>
    /\ styles = << >>
    /\ earlier = << >>
    /\ session = EmptySession
    /\ page = EmptyPage
    /\ clicks = 0
    /\ thread = 1
    /\ other = NoThread
    /\ today \in Clock
    /\ months = << >>
    /\ year = start_year
    /\ month = start_month
    /\ file_name = ""
    /\ exc = "none"
    /\ pc = "month_start"

\* the variables the month list does not touch
request_vars ==
    << variant, table_entry, thread, other, geography, boundary, metric, state, merged_gdf, columns,
       bins, color_map, q_idx, attempts, bin_edges, labels, features, styles, earlier,
       session, page, clicks, file_name, exc >>

\* months = [] and year, month = start_year, start_month
month_list_begins ==
    /\ pc = "month_start"
    /\ months' = << >>
    /\ year' = start_year
    /\ month' = start_month
    /\ pc' = "month_loop"
    /\ UNCHANGED today
    /\ UNCHANGED request_vars

\* the condition of the while loop
in_range(y, m, t) ==
    \/ y < end_year(t.year, t.month)
    \/ y = end_year(t.year, t.month) /\ m <= end_month(t.month)

\* one pass of the while loop
month_list_appends ==
    /\ pc = "month_loop"
    /\ in_range(year, month, today)
    /\ months' = Append(months, IF variant = "map_app_v1" THEN strftime_BY(year, month)
                                ELSE strftime_Ymd(year, month))
    /\ IF month = 12
          THEN month' = 1 /\ year' = year + 1
          ELSE month' = month + 1 /\ UNCHANGED year
    /\ UNCHANGED << today, pc >>
    /\ UNCHANGED request_vars

\* the loop condition is false: the list is returned
month_list_returns ==
    /\ pc = "month_loop"
    /\ ~in_range(year, month, today)
    /\ pc' = "month_done"
    /\ UNCHANGED << today, months, year, month >>
    /\ UNCHANGED request_vars

NextMonths == month_list_begins \/ month_list_appends \/ month_list_returns

\* the loop is the only thing running: it takes its next step whenever it has one
SpecMonths == InitMonths /\ [][NextMonths]_vars /\ WF_vars(NextMonths)

\* the dates the list stands for: map_app_v1.py keeps labels and converts
\* the selected one with _month_label_to_value
MonthDates ==
    [i \in DOMAIN months |->
        IF variant = "map_app_v1" THEN month_label_to_value(months[i]) ELSE months[i]]

\* months since year 0
MonthNumber(d) == d[1] * 12 + d[2]

\* the first day of the month before today
PreviousMonth ==
    IF today.month = 1 THEN << today.year - 1, 12, 1 >>
    ELSE << today.year, today.month - 1, 1 >>

\* today is after the month the list starts with
AfterStart == MonthNumber(<< today.year, today.month, 1 >>) > MonthNumber(<< 2024, 4, 1 >>)

-----------------------------------------------------------------------------
Consecutive ==
    /\ \A i \in DOMAIN MonthDates :
          MonthDates[i][2] \in 1..12 /\ MonthDates[i][3] = 1
    /\ \A i \in 1..(Len(MonthDates) - 1) :
          MonthNumber(MonthDates[i + 1]) = MonthNumber(MonthDates[i]) + 1

-----------------------------------------------------------------------------
ListAscendingToPreviousMonth ==
    /\ Consecutive
    /\ \A i, j \in DOMAIN months :
          (i < j) => (MonthNumber(MonthDates[i]) < MonthNumber(MonthDates[j]))
    /\ (pc = "month_done") =>
          IF AfterStart
          THEN /\ Len(months) > 0
               /\ MonthDates[Len(months)] = PreviousMonth
               /\ (today.month = 1) =>
                     (MonthDates[Len(months)] = << today.year - 1, 12, 1 >>)
          ELSE months = << >>

-----------------------------------------------------------------------------
(* C24: map_app.py processes a request with boundary state_level and       *)
(* geography State (a state is selected) as a National one: geography is   *)
(* National from the head of the function on, the state cut removes no     *)
(* row, every state of the boundary file is among the returned features    *)
(* and has the bucket the scheme gives its value, whichever state was      *)
(* selected, and the file name has the MAP_National_ form.                 *)
C24_StateLevelStateIsNational ==
    (variant = "map_app" /\ boundary = "state_level" /\ state \in States /\ pc # "idle") =>
        /\ geography = "National"
        /\ pc \in {"filter", "classify", "render"} =>
              /\ Len(merged_gdf) = NumRegions
              /\ \A k \in 1..NumRegions : merged_gdf[k].STATE_NAME = StateName(k)
        /\ pc = "returned" =>
              /\ Len(features) = NumRegions
              /\ \A k \in 1..NumRegions :
                    /\ features[k].STATE_NAME = StateName(k)
                    /\ "Buckets" \in columns => "Buckets" \in DOMAIN features[k]
                    /\ Predefined =>
                          BucketOf(features[k]) =
                             pd_cut([i \in 1..NumRegions |-> features[i].value],
                                    bins, labels).values[k]
              /\ file_name = "MAP_National_state_level_" \o metric \o "_" \o month_year \o ".html"

\* map_app.py returned from a state-level request for BIHAR with both states
\* classified, PUNJAB among them
C24_Witness ==
    /\ variant = "map_app"
    /\ pc = "returned"
    /\ boundary = "state_level"
    /\ state = "BIHAR"
    /\ metric = "TRANSACTING_SMAs"
    /\ Len(features) = 2
    /\ features[2].STATE_NAME = "PUNJAB"
    /\ BucketOf(features[1]) # NaN
    /\ BucketOf(features[2]) # NaN
    /\ file_name = "MAP_National_state_level_TRANSACTING_SMAs_2025-03-01.html"

-----------------------------------------------------------------------------
(* Dynamic binning of a request of state scope: the table of SpecBin, the  *)
(* districts alternating between the states, and a selected state          *)

InitScoped ==
    /\ variant \in Variants
    /\ table_entry = NoEntry
    /\ geography = "State"
    /\ boundary = "district_level"
    /\ metric = "GROSS_ADDS"
    /\ state \in States
    /\ merged_gdf = << >>
    /\ columns = merged_columns("district_level")
    /\ bins = << >>
    /\ color_map = EmptyMap
    /\ q_idx = 1
    /\ attempts = << >>
    /\ bin_edges = << >>
    /\ labels = << >>
    /\ features = << >>
    /\ styles = << >>
    /\ earlier = << >>
    /\ thread = 1
    /\ other = NoThread
    /\ today = NoDate
    /\ months = << >>
    /\ year = start_year
    /\ month = start_month
    /\ session = EmptySession
    /\ page = EmptyPage
    /\ clicks = 0
    /\ file_name = ""
    /\ exc = "none"
    /\ pc = "query"

SpecScoped == InitScoped /\ [][NextBin]_vars

\* the rows of the selected state
OfSelectedState(df) == SelectSeq(df, LAMBDA r : r.STATE_x = state)

-----------------------------------------------------------------------------
(* C27: when geography is State, the state cut comes before the            *)
(* classification in both variants: whenever the request is at or past the *)
(* classification every row of the table, and every rendered feature, has  *)
(* STATE_x equal to the selected state, and the edges every quantile       *)
(* attempt computes are those of the values of the selected state's rows.  *)
C27_StateCutBeforeClassification ==
    [][(geography = "State" /\ pc \in {"classify", "binning", "render", "returned"}) =>
          /\ \A k \in 1..Len(merged_gdf) : merged_gdf[k].STATE_x = state
          /\ \A k \in 1..Len(merged_gdf') : merged_gdf'[k].STATE_x = state
          /\ \A k \in 1..Len(features') : features'[k].STATE_x = state
          /\ (attempts' # attempts /\ attempts' # << >>) =>
                LET a == attempt(column_of(OfSelectedState(merged_gdf)),
                                 attempts'[Len(attempts')].q)
                IN /\ attempts'[Len(attempts')].outcome = a.outcome
                   /\ a.outcome # "edges_not_unique" => bin_edges' = a.edges
                   /\ a.outcome = "ok" =>
                         \A k \in 1..Len(merged_gdf') :
                            merged_gdf'[k].Buckets = a.values[k]
      ]_vars

\* A request for BIHAR over districts of both states has returned: the
\* quantile edges are those of BIHAR's rows and PUNJAB's are not rendered
C27_Witness ==
    /\ geography = "State"
    /\ state = "BIHAR"
    /\ pc = "returned"
    /\ bin_edges # << >>
    /\ Len(features) = 4
    /\ \A k \in 1..4 : features[k].STATE_x = "BIHAR" /\ BucketOf(features[k]) # NaN
    /\ \E k \in 1..4 : features[k].District = DistrictName(7)

-----------------------------------------------------------------------------
(* C30: whenever a pass of get_valid_bins succeeds for quantile count q,   *)
(* its q labels are pairwise distinct, the colour map has exactly q keys,  *)
(* the set of the labels, and every row with a value carries one of them;  *)
(* a pass whose truncated edges give two equal labels is rejected and      *)
(* writes no column; the bucket column is written by the succeeding pass   *)
(* only, and after it no other quantile count is tried.                    *)
C30_ColourMapOfSucceedingAttempt ==
    [][(pc = "binning" /\ attempts' # attempts) =>
          LET this == attempts'[Len(attempts')]
              keys == {labels'[i] : i \in 1..Len(labels')}
          IN /\ this.q = bin_options[q_idx]
             /\ (color_map' # EmptyMap) <=> (this.outcome = "ok")
             /\ (this.outcome = "ok") <=> (pc' = "render")
             /\ this.outcome = "ok" =>
                   /\ Len(labels') = this.q
                   /\ \A i, j \in 1..this.q : (i # j) => (labels'[i] # labels'[j])
                   /\ DOMAIN color_map' = keys
                   /\ Cardinality(DOMAIN color_map') = this.q
                   /\ "Buckets" \in columns'
                   /\ \A k \in 1..Len(merged_gdf') :
                         ~IsNa(merged_gdf'[k].value) => merged_gdf'[k].Buckets \in keys
                   /\ \A i \in 1..(Len(attempts') - 1) : attempts'[i].outcome # "ok"
             /\ this.outcome = "labels_not_unique" =>
                   /\ \E i, j \in 1..Len(labels') : i # j /\ labels'[i] = labels'[j]
                   /\ merged_gdf' = merged_gdf
                   /\ columns' = columns
                   /\ "Buckets" \notin columns'
                   /\ color_map' = EmptyMap
             /\ this.outcome # "ok" => (merged_gdf' = merged_gdf /\ columns' = columns)
      ]_vars

\* The pass for ten quantiles was rejected for its labels, the pass for five
\* succeeded and wrote the bucket column
C30_Witness ==
    /\ pc = "render"
    /\ Len(attempts) = 2
    /\ attempts[1] = [q |-> 10, outcome |-> "labels_not_unique"]
    /\ attempts[2] = [q |-> 5, outcome |-> "ok"]
    /\ Cardinality(DOMAIN color_map) = 5
    /\ "Buckets" \in columns

-----------------------------------------------------------------------------
\* the values of the first pass of get_valid_bins that succeeds from position
\* i of bin_options on, or no values when every pass is rejected
RECURSIVE first_valid(_, _)
first_valid(x, i) ==
    IF i > Len(bin_options) THEN << >>
    ELSE LET a == attempt(x, bin_options[i])
         IN IF a.outcome = "ok" THEN a.values ELSE first_valid(x, i + 1)

\* What the classification of variant var makes of the value column x: the
\* kind of scheme, the exception raised, and the bucket of every row
classification_of(var, b, m, x) ==
    IF m \in DOMAIN metric_list_to_be_used(var, b)
    THEN LET scheme == metric_list_to_be_used(var, b)[m]
             cut == pd_cut(x, sorted(scheme.bins), scheme.labels)
         IN [kind   |-> "predefined",
             raised |-> IF cut.raised # "none" THEN cut.raised
                        ELSE IF lookup_raises(var, b, m) THEN "KeyError" ELSE "none",
             values |-> cut.values]
    ELSE [kind |-> "dynamic", raised |-> "none", values |-> first_valid(x, 1)]

(* C29: the two variants classify alike: for the boundary level, metric    *)
(* and row table that reach the classification, map_app.py and             *)
(* map_app_v1.py use the same kind of scheme and give every row the same   *)
(* outcome (a label, no bucket, or the same error).                        *)
C29_VariantsClassifyAlike ==
    pc = "classify" =>
        classification_of("map_app", boundary, metric, column_of(merged_gdf))
            = classification_of("map_app_v1", boundary, metric, column_of(merged_gdf))

-----------------------------------------------------------------------------
(* Two requests in flight: two script threads of one server process run    *)
(* generate_folium_map, their steps interleaved in any order.  The         *)
(* variables of the function are those of the running thread; other holds  *)
(* the locals of the thread that waits.                                    *)

\* the locals of the running thread
locals ==
    [geography |-> geography, boundary |-> boundary, metric |-> metric, state |-> state,
     merged_gdf |-> merged_gdf, columns |-> columns, bins |-> bins,
     color_map |-> color_map, q_idx |-> q_idx, attempts |-> attempts,
     bin_edges |-> bin_edges, labels |-> labels, features |-> features,
     styles |-> styles, file_name |-> file_name, exc |-> exc, pc |-> pc]

\* the locals of a thread that has not called generate_folium_map yet
idle_locals ==
    [geography |-> "National", boundary |-> "district_level",
     metric |-> "TRANSACTING_SMAs", state |-> "N/A", merged_gdf |-> << >>,
     columns |-> {}, bins |-> << >>, color_map |-> EmptyMap, q_idx |-> 1,
     attempts |-> << >>, bin_edges |-> << >>, labels |-> << >>, features |-> << >>,
     styles |-> << >>, file_name |-> "", exc |-> "none", pc |-> "idle"]

InitThreads ==
    /\ variant \in Variants
    /\ table_entry = NoEntry
    /\ geography = "National"
    /\ boundary = "district_level"
    /\ metric = "TRANSACTING_SMAs"
    /\ state = "N/A"
    /\ merged_gdf = << >>
    /\ columns = {}
    /\ bins = << >>
    /\ color_map = EmptyMap
    /\ q_idx = 1
    /\ attempts = << >>
    /\ bin_edges = << >>
    /\ labels = << >>
    /\ features = << >>
    /\ styles = << >>
    /\ earlier = << >>
    /\ session = EmptySession
    /\ page = EmptyPage
    /\ clicks = 0
    /\ thread = 1
    /\ other = idle_locals
    /\ today = NoDate
    /\ months = << >>
    /\ year = start_year
    /\ month = start_month
    /\ file_name = ""
    /\ exc = "none"
    /\ pc = "idle"

\* the metrics the two threads ask for: one with a predefined scheme in both
\* variants and one that is binned dynamically
ThreadMetrics == {"TRANSACTING_SMAs", "GROSS_ADDS"}

\* a thread calls generate_folium_map for a map of the districts of the nation
ThreadCalls ==
    /\ call_generate({"district_level"})
    /\ metric' \in ThreadMetrics
    /\ geography' = "National"
    /\ UNCHANGED << session, page, clicks >>

\* The scheduler as it would be if color_map were one object of the module
\* that both threads assign
SwitchSharingColours ==
    /\ other # NoThread
    /\ other' = locals
    /\ thread' = 3 - thread
    /\ geography' = other.geography
    /\ boundary' = other.boundary
    /\ metric' = other.metric
    /\ state' = other.state
    /\ merged_gdf' = other.merged_gdf
    /\ columns' = other.columns
    /\ bins' = other.bins
    /\ q_idx' = other.q_idx
    /\ attempts' = other.attempts
    /\ bin_edges' = other.bin_edges
    /\ labels' = other.labels
    /\ features' = other.features
    /\ styles' = other.styles
    /\ file_name' = other.file_name
    /\ exc' = other.exc
    /\ pc' = other.pc
    /\ UNCHANGED << variant, table_entry, today, months, year, month, session, page,
                    clicks, earlier, color_map >>

\* The scheduler takes the running thread off and puts the other on: every
\* name assigned in generate_folium_map and get_valid_bins is a local of the
\* call, so each thread finds its own values again
Switch ==
    /\ other # NoThread
    /\ other' = locals
    /\ thread' = 3 - thread
    /\ geography' = other.geography
    /\ boundary' = other.boundary
    /\ metric' = other.metric
    /\ state' = other.state
    /\ merged_gdf' = other.merged_gdf
    /\ columns' = other.columns
    /\ bins' = other.bins
    /\ color_map' = other.color_map
    /\ q_idx' = other.q_idx
    /\ attempts' = other.attempts
    /\ bin_edges' = other.bin_edges
    /\ labels' = other.labels
    /\ features' = other.features
    /\ styles' = other.styles
    /\ file_name' = other.file_name
    /\ exc' = other.exc
    /\ pc' = other.pc
    /\ UNCHANGED << variant, table_entry, today, months, year, month, session, page,
                    clicks, earlier >>

NextThreads ==
    \/ ThreadCalls
    \/ MergeInSession
    \/ CutByState
    \/ Classify
    \/ TryQuantile
    \/ AllAttemptsFailed
    \/ Render
    \/ Switch

SpecThreads == InitThreads /\ [][NextThreads]_vars


\* the quantile count of the first pass of get_valid_bins that succeeds from
\* position i of bin_options on, or 0 when every pass is rejected
RECURSIVE first_valid_q(_, _)
first_valid_q(x, i) ==
    IF i > Len(bin_options) THEN 0
    ELSE IF attempt(x, bin_options[i]).outcome = "ok" THEN bin_options[i]
    ELSE first_valid_q(x, i + 1)

\* The colour map the classification of variant var returns for the value
\* column x
colours_of(var, b, m, x) ==
    IF m \in DOMAIN metric_list_to_be_used(var, b) THEN lookup_colors(var, b, m)
    ELSE LET q == first_valid_q(x, 1)
         IN IF q = 0 THEN EmptyMap
            ELSE dict_of(attempt(x, q).labels, color_palette(q))

\* The outputs in the locals r of a thread are those its own parameters and
\* its own row table give with the static tables
OwnOutputs(r) ==
    /\ r.pc \in {"render", "returned"} =>
          LET x == column_of(r.merged_gdf)
              c == classification_of(variant, r.boundary, r.metric, x)
          IN /\ c.raised = "none"
             /\ \A k \in 1..Len(r.merged_gdf) :
                   BucketOf(r.merged_gdf[k]) =
                      IF c.values = << >> THEN NaN ELSE c.values[k]
             /\ r.color_map = colours_of(variant, r.boundary, r.metric, x)
    /\ r.pc = "returned" =>
          /\ r.features = r.merged_gdf
          /\ r.file_name =
                make_file_name(r.geography, r.state, r.boundary, r.metric, month_year)

-----------------------------------------------------------------------------
(* C23: requests are independent: however the steps of two requests in     *)
(* flight are interleaved, and whether or not another request ran before,  *)
(* the buckets, the colour map and the file name of each request are those *)
(* that its own parameters and its own row table give with the static      *)
(* scheme tables.                                                          *)
C23_RequestsIndependent ==
    /\ OwnOutputs(locals)
    /\ other # NoThread => OwnOutputs(other)

\* Thread 1 has returned a dynamically binned map while thread 2, called
\* with another metric, is between its classification and its return
C23_Witness ==
    /\ other # NoThread
    /\ thread = 1
    /\ pc = "returned"
    /\ metric = "GROSS_ADDS"
    /\ color_map # EmptyMap
    /\ other.pc = "render"
    /\ other.metric = "TRANSACTING_SMAs"
    /\ other.color_map # EmptyMap
    /\ other.color_map # color_map

=============================================================================
